---- MODULE Spec2Model ----
(***************************************************************************)
(* Model of botcaffe.py: an aiogram 3 bot.  One Dispatcher with a          *)
(* MemoryStorage FSM (no events isolation), handlers registered on         *)
(* dp.message in source order, a sqlite3 ledger (users, visits, events,    *)
(* admins) and polling that runs every update as its own asyncio task.     *)
(* Message texts are written in ASCII transliteration of the source's      *)
(* Russian button captions.                                                *)
(***************************************************************************)
EXTENDS Integers, Sequences, FiniteSets, Bags, TLC

VARIABLES fsm_state, fsm_data, users, visits, events, admins, tasks, last, polled

vars == <<fsm_state, fsm_data, users, visits, events, admins, tasks, last, polled>>

(* ------------------------------ bounds --------------------------------- *)
MaxTasks   == 2    \* updates being handled at the same time (asyncio tasks)
MaxUpdates == 2    \* polled updates other than the next input of a running flow
MaxEvents  == 2    \* rows of the events table
MaxCount   == 15   \* visits a user has in the ledger when the process starts

(* ----------------------------- identities ------------------------------ *)
BootstrapAdmin == 586842186
Guests == {1}
UserIds == Guests \cup {BootstrapAdmin}

None == "<None>"

(* ------------------------------ FSM states ----------------------------- *)
Form_phone             == "Form:phone"
Form_event_title       == "Form:event_title"
Form_event_description == "Form:event_description"
Form_event_date        == "Form:event_date"
Form_event_photo       == "Form:event_photo"
Form_mailing_message   == "Form:mailing_message"
Form_feedback          == "Form:feedback"

Form == {Form_phone, Form_event_title, Form_event_description, Form_event_date,
         Form_event_photo, Form_mailing_message, Form_feedback}

(* --------------------------- message alphabet -------------------------- *)
TXT_START     == "/start"
TXT_VISIT     == "otmetit poseshchenie"
TXT_BONUSES   == "moi bonusy"
TXT_EVENTS    == "sobytiya"
TXT_ADMIN     == "/admin"
TXT_STATS     == "statistika"
TXT_MAILING   == "rassylka"
TXT_ADD_EVENT == "dobavit sobytie"
TXT_BACK      == "v glavnoe menyu"
TXT_CONTACTS  == "kontakty"
TXT_FEEDBACK  == "otzyv"
TXT_SKIP      == "propustit"

CommandTexts == {TXT_START, TXT_VISIT, TXT_BONUSES, TXT_EVENTS, TXT_ADMIN, TXT_STATS,
                 TXT_MAILING, TXT_ADD_EVENT, TXT_BACK, TXT_CONTACTS, TXT_FEEDBACK}

FreeTexts == {"hello", "Propustit", "01.06.2024 18:30", "32.13.2024 10:00"}

Texts == CommandTexts \cup FreeTexts

Phones   == {"+70001"}
PhotoIds == {"file-1"}

\* types.Message: text, contact and photo are None when the payload is of another kind
TextMsg(t)    == [text |-> t,    contact |-> None, photo |-> None]
ContactMsg(p) == [text |-> None, contact |-> p,    photo |-> None]
PhotoMsg(f)   == [text |-> None, contact |-> None, photo |-> f]

Messages == {TextMsg(t) : t \in Texts} \cup {ContactMsg(p) : p \in Phones}
              \cup {PhotoMsg(f) : f \in PhotoIds}

\* str.lower() on the texts of the alphabet
Lower(t) == IF t = "Propustit" THEN "propustit" ELSE t

(* --------------------------- dates (strptime) -------------------------- *)
\* the fields a text shows when read against "%d.%m.%Y %H:%M": <<d, m, Y, H, M>>
DateFields == ("01.06.2024 18:30" :> <<1, 6, 2024, 18, 30>>) @@
              ("32.13.2024 10:00" :> <<32, 13, 2024, 10, 0>>)

IsLeap(y) == (y % 4 = 0 /\ y % 100 # 0) \/ y % 400 = 0

DaysInMonth(y, m) == IF m = 2 THEN (IF IsLeap(y) THEN 29 ELSE 28)
                     ELSE IF m \in {4, 6, 9, 11} THEN 30 ELSE 31

\* datetime.strptime(text, "%d.%m.%Y %H:%M"): "TypeError" for None,
\* "ValueError" for a text that does not match or names no real date-time
strptime_error(text) ==
    IF text = None THEN "TypeError"
    ELSE IF text \notin DOMAIN DateFields THEN "ValueError"
    ELSE LET f == DateFields[text] IN
         IF /\ f[3] \in 1..9999
            /\ f[2] \in 1..12
            /\ f[1] \in 1..DaysInMonth(f[3], f[2])
            /\ f[4] \in 0..23
            /\ f[5] \in 0..59
         THEN "ok" ELSE "ValueError"

\* event_date.strftime("%Y-%m-%d %H:%M:%S"): <<Y, m, d, H, M, S>>
strftime_storage(text) ==
    LET f == DateFields[text] IN <<f[3], f[2], f[1], f[4], f[5], 0>>

(* ------------------------------ loyalty -------------------------------- *)
N == 7

\* show_main_menu: 7 - (visits_count % 7) if visits_count % 7 != 0 else 0
remaining(v) == IF v % N # 0 THEN N - (v % N) ELSE 0

\* show_bonuses / mark_visit: 7 - (visits_count % 7)
to_free_coffee(v) == N - (v % N)

(* ------------------------- handler registration ------------------------ *)
\* the @dp.message(...) decorators in source order: a handler is observed
\* with the filter it was registered with
OnText(h, t)  == [name |-> h, filter |-> "F.text",    arg |-> t]
OnContact(h)  == [name |-> h, filter |-> "F.contact", arg |-> None]
OnState(h, s) == [name |-> h, filter |-> "state",     arg |-> s]

Registered ==
    << OnText("cmd_start", TXT_START),
       OnContact("process_phone"),
       OnText("mark_visit", TXT_VISIT),
       OnText("show_bonuses", TXT_BONUSES),
       OnText("show_events", TXT_EVENTS),
       OnText("admin_panel", TXT_ADMIN),
       OnText("show_stats", TXT_STATS),
       OnText("start_mailing", TXT_MAILING),
       OnState("process_mailing", Form_mailing_message),
       OnText("start_adding_event", TXT_ADD_EVENT),
       OnState("process_event_title", Form_event_title),
       OnState("process_event_description", Form_event_description),
       OnState("process_event_date", Form_event_date),
       OnState("process_event_photo", Form_event_photo),
       OnText("back_to_main_menu", TXT_BACK),
       OnText("show_contacts", TXT_CONTACTS),
       OnText("start_feedback", TXT_FEEDBACK),
       OnState("process_feedback", Form_feedback) >>

\* one registered filter against the update: F.text == t compares the text,
\* F.contact is truthy for a contact payload, a State matches the raw state
Matches(h, raw_state, msg) ==
    IF h.filter = "F.text" THEN msg.text = h.arg
    ELSE IF h.filter = "F.contact" THEN msg.contact # None
    ELSE raw_state = h.arg

\* the Dispatcher's router: the first registered handler, from the k-th on,
\* whose filter passes
RECURSIVE FirstMatch(_, _, _)
FirstMatch(k, raw_state, msg) ==
    IF k > Len(Registered) THEN "unhandled"
    ELSE IF Matches(Registered[k], raw_state, msg) THEN Registered[k].name
    ELSE FirstMatch(k + 1, raw_state, msg)

Route(raw_state, msg) == FirstMatch(1, raw_state, msg)

\* the place of handler h in the registration order
Position == [h \in {Registered[k].name : k \in 1..Len(Registered)} |->
               CHOOSE k \in 1..Len(Registered) : Registered[k].name = h]

\* the update reaches handler h: its own filter passes and no handler
\* registered before it takes the update
RoutedTo(h, raw_state, msg) ==
    /\ Matches(Registered[Position[h]], raw_state, msg)
    /\ Route(raw_state, msg) = h

(* ------------------------------ Database ------------------------------- *)
\* users: user_id -> phone (NULL until update_phone); INSERT OR IGNORE
Database_add_user(tbl, user_id) ==
    IF user_id \in DOMAIN tbl THEN tbl ELSE (user_id :> None) @@ tbl

\* UPDATE users SET phone = ? WHERE user_id = ?
Database_update_phone(tbl, user_id, phone) ==
    [x \in DOMAIN tbl |-> IF x = user_id THEN phone ELSE tbl[x]]

\* fault: a read-modify-write of the counter on a stale read, which loses
\* the increment of a user who already has a visit
Database_add_visit_lost(tbl, user_id) ==
    IF BagIn(user_id, tbl) THEN tbl ELSE tbl (+) SetToBag({user_id})

\* fault: an INSERT OR REPLACE that keeps only the new row
Database_add_visit_reset(tbl, user_id) == SetToBag({user_id})

\* INSERT INTO visits: one more row of this user
Database_add_visit(tbl, user_id) == tbl (+) SetToBag({user_id})

\* SELECT COUNT(*) FROM visits WHERE user_id = ?
Database_get_visits_count(tbl, user_id) == CopiesIn(user_id, tbl)

\* fault: a membership check that lets every identity through
Database_is_admin_everyone(tbl, user_id) == TRUE

\* SELECT 1 FROM admins WHERE user_id = ?
Database_is_admin(tbl, user_id) == user_id \in tbl

RECURSIVE Ascending(_)
Ascending(S) ==
    IF S = {} THEN <<>>
    ELSE LET lo == CHOOSE x \in S : \A y \in S : x <= y IN <<lo>> \o Ascending(S \ {lo})

\* SELECT user_id FROM users: the rows in rowid (= user_id) order
Database_get_all_users(tbl) == Ascending(DOMAIN tbl)

\* SELECT COUNT(*) FROM users, SELECT COUNT(*) FROM visits
Database_get_stats(utbl, vtbl) ==
    [total_users |-> Cardinality(DOMAIN utbl), total_visits |-> BagCardinality(vtbl)]

\* INSERT INTO events (title, description, event_date, photo_id)
Database_add_event(tbl, title, description, event_date, photo_id) ==
    Append(tbl, [title |-> title, description |-> description,
                 event_date |-> event_date, photo_id |-> photo_id])

\* SELECT * FROM events ORDER BY event_date: all stored dates have the one
\* storage layout, rows of equal date keep insertion order
DateLess(a, b) ==
    \E k \in 1..6 : a[k] < b[k] /\ \A j \in 1..(k - 1) : a[j] = b[j]

RECURSIVE SortByDate(_)
SortByDate(rows) ==
    IF rows = <<>> THEN <<>>
    ELSE LET k == CHOOSE i \in 1..Len(rows) :
                     /\ \A j \in 1..Len(rows) : ~DateLess(rows[j].event_date, rows[i].event_date)
                     /\ \A j \in 1..(i - 1) : DateLess(rows[i].event_date, rows[j].event_date)
             rest == [j \in 1..(Len(rows) - 1) |-> IF j < k THEN rows[j] ELSE rows[j + 1]]
         IN <<rows[k]>> \o SortByDate(rest)

Database_get_events(tbl) == SortByDate(tbl)

(* ------------------------- MemoryStorage (FSM) ------------------------- *)
NoData == [k \in {} |-> None]

\* fault: a storage keyed without the user, so that set_state reaches everyone
FSM_set_state_all(st, user_id, s) == [x \in DOMAIN st |-> s]

\* state.set_state(s)
FSM_set_state(st, user_id, s) == [st EXCEPT ![user_id] = s]

\* state.update_data(key=value): the stored dict with the key overwritten
FSM_update_data(dt, user_id, key, value) ==
    [dt EXCEPT ![user_id] = (key :> value) @@ @]

(* --------------------- updates being handled (tasks) ------------------- *)
\* Polling starts one asyncio task per update.  A task runs without
\* interruption from one await of an outbound call to the next; a handler
\* is split into steps only where it reads or writes the FSM storage or the
\* ledger after such an await.  tasks is the bag of suspended handlers.
NoTask == [user |-> 0, msg |-> TextMsg(None), raw_state |-> None, handler |-> "none",
           trace |-> <<>>]

NoLast == [user |-> 0, msg |-> TextMsg(None), raw_state |-> None, handler |-> "none",
           trace |-> <<>>, outcome |-> "none"]

\* a coroutine started for an update of user u, routed to handler h
NewTask(u, m, h) ==
    [user |-> u, msg |-> m, raw_state |-> fsm_state[u], handler |-> h, trace |-> <<>>]

\* one entry of a handler's trace: a ledger call (op "db") or an outbound
\* call (op "answer", "answer_photo", "send_message") with its result
Did(t, op, kind, n, total, ok) ==
    [t EXCEPT !.trace = Append(@, [op |-> op, kind |-> kind, n |-> n, total |-> total, ok |-> ok])]

\* the new handler t is suspended in the outbound call it recorded last
Suspend(t) ==
    /\ tasks' = tasks (+) SetToBag({t})
    /\ last' = NoLast

\* the coroutine is over (returned, or an exception reached the Dispatcher,
\* which logs it); last is the Dispatcher's log record of the update.
\* p is the suspended handler that went on, NoTask for one that never suspended
Finish(p, t, outcome) ==
    /\ tasks' = tasks (-) SetToBag({p})
    /\ last' = [user |-> t.user, msg |-> t.msg, raw_state |-> t.raw_state,
                handler |-> t.handler, trace |-> t.trace, outcome |-> outcome]

\* the handler's last statement is an awaited reply: it returns, or the
\* exception of the failed call ends it
FinalReply(p, t, op, kind, n, total) ==
    \E ok \in BOOLEAN :
      Finish(p, Did(t, op, kind, n, total, ok), IF ok THEN "returned" ELSE "TelegramAPIError")

\* the input a running flow asks for next: a plain text for the title, the
\* description, the mailing and the feedback, a date-time for the date, a
\* photo or the skip keyword for the photo
Expected(raw_state, m) ==
    \/ raw_state \in {Form_event_title, Form_event_description, Form_mailing_message, Form_feedback}
         /\ m.text = "hello"
    \/ raw_state = Form_event_date /\ m.text = "01.06.2024 18:30"
    \/ raw_state = Form_event_photo /\ (m.photo # None \/ m.text = "Propustit")

\* what an update counts against MaxUpdates: the steps of a running flow
\* are not counted, every other update is
Cost(u, m) == IF Expected(fsm_state[u], m) THEN 0 ELSE 1

\* polling creates a task per update (handle_as_tasks); the task reads the
\* raw state and the router picks handler h
Starts(u, m, h) ==
    /\ BagCardinality(tasks) < MaxTasks
    /\ polled + Cost(u, m) <= MaxUpdates
    /\ RoutedTo(h, fsm_state[u], m)
    /\ polled' = polled + Cost(u, m)

\* the outbound call the suspended handler p waits for comes back
Resumes(p, h) ==
    /\ BagIn(p, tasks)
    /\ p.handler = h
    /\ UNCHANGED polled

\* the suspended handler p with the result of the call it was suspended in
AfterReply(p, ok) ==
    [p EXCEPT !.trace = [@ EXCEPT ![Len(p.trace)] = [@ EXCEPT !.ok = ok]]]

(* -------------------------------- Init --------------------------------- *)
\* The process starts with every conversation idle (MemoryStorage) and one
\* seeded admin.  anticafe.db outlives the process: the users table is
\* empty (first start) or holds the users of earlier runs.
NoUsers == [u \in {} |-> None]

Init ==
    /\ fsm_state = [u \in UserIds |-> None]
    /\ fsm_data  = [u \in UserIds |-> NoData]
    /\ users \in {NoUsers, [u \in UserIds |-> None]}
    /\ visits = EmptyBag
    /\ events = <<>>
    /\ admins = {BootstrapAdmin}
    /\ tasks  = EmptyBag
    /\ last   = NoLast
    /\ polled = 0

(* ------------------------------ handlers ------------------------------- *)
\* show_main_menu(message)
MainMenu(p, t) ==
    LET visits_count == Database_get_visits_count(visits, t.user)
        rem == remaining(visits_count)
    IN FinalReply(p, t, "answer",
                  IF rem = 0 /\ visits_count > 0 THEN "main_menu_free_coffee" ELSE "main_menu",
                  rem, visits_count)

\* admin_panel(message)
AdminPanel(p, t) ==
    IF ~Database_is_admin(admins, t.user)
    THEN FinalReply(p, t, "answer", "denial", 0, 0)
    ELSE FinalReply(p, t, "answer", "admin_panel", 0, 0)

cmd_start(u, m) ==
    /\ Starts(u, m, "cmd_start")
    /\ \E dbok \in BOOLEAN :
         LET t == Did(NewTask(u, m, "cmd_start"), "db", "add_user", 0, 0, dbok) IN
         IF dbok
         THEN /\ users' = Database_add_user(users, u)
              /\ FinalReply(NoTask, t, "answer", "welcome", 0, 0)
         ELSE /\ Finish(NoTask, t, "sqlite3.Error")
              /\ UNCHANGED users
    /\ UNCHANGED <<fsm_state, fsm_data, visits, events, admins>>

process_phone(u, m) ==
    /\ Starts(u, m, "process_phone")
    /\ \E dbok \in BOOLEAN :
         LET t == Did(NewTask(u, m, "process_phone"), "db", "update_phone", 0, 0, dbok) IN
         IF dbok
         THEN /\ users' = Database_update_phone(users, u, m.contact)
              /\ Suspend( Did(t, "answer", "loyalty_member", 0, 0, TRUE))
         ELSE /\ Finish(NoTask, t, "sqlite3.Error")
              /\ UNCHANGED users
    /\ UNCHANGED <<fsm_state, fsm_data, visits, events, admins>>

process_phone_resume(p) ==
    /\ Resumes(p, "process_phone")
    /\ \E ok \in BOOLEAN :
         LET t == AfterReply(p, ok) IN
         IF ok THEN MainMenu(p, t) ELSE Finish(p, t, "TelegramAPIError")
    /\ UNCHANGED <<fsm_state, fsm_data, users, visits, events, admins>>

mark_visit(u, m) ==
    /\ Starts(u, m, "mark_visit")
    /\ \E dbok \in BOOLEAN :
         LET added == Database_add_visit(visits, u)
             visits_count == Database_get_visits_count(added, u)
             t == Did(NewTask(u, m, "mark_visit"), "db", "add_visit",
                      IF dbok THEN visits_count ELSE 0, 0, dbok)
         IN
         IF dbok
         THEN /\ visits' = added
              /\ Suspend(
                   IF visits_count % N = 0
                   THEN Did(t, "answer", "free_coffee", 0, visits_count, TRUE)
                   ELSE Did(t, "answer", "visit_counted", to_free_coffee(visits_count),
                            visits_count, TRUE))
         ELSE /\ Finish(NoTask, t, "sqlite3.Error")
              /\ UNCHANGED visits
    /\ UNCHANGED <<fsm_state, fsm_data, users, events, admins>>

mark_visit_resume(p) ==
    /\ Resumes(p, "mark_visit")
    /\ \E ok \in BOOLEAN :
         LET t == AfterReply(p, ok) IN
         IF ok THEN MainMenu(p, t) ELSE Finish(p, t, "TelegramAPIError")
    /\ UNCHANGED <<fsm_state, fsm_data, users, visits, events, admins>>

show_bonuses(u, m) ==
    /\ Starts(u, m, "show_bonuses")
    /\ LET visits_count == Database_get_visits_count(visits, u) IN
       FinalReply(NoTask, NewTask(u, m, "show_bonuses"), "answer", "bonuses",
                  to_free_coffee(visits_count), visits_count)
    /\ UNCHANGED <<fsm_state, fsm_data, users, visits, events, admins>>

\* the for loop of show_events over rows k..: every reply is awaited, the
\* first failed one ends the handler; oks[k] is the result of reply k
RECURSIVE EventReplies(_, _, _, _)
EventReplies(t, rows, oks, k) ==
    IF k > Len(rows) THEN [task |-> t, outcome |-> "returned"]
    ELSE LET sent == Did(t, IF rows[k].photo_id # None THEN "answer_photo" ELSE "answer",
                         "event", k, Len(rows), oks[k])
         IN IF oks[k] THEN EventReplies(sent, rows, oks, k + 1)
            ELSE [task |-> sent, outcome |-> "TelegramAPIError"]

show_events(u, m) ==
    /\ Starts(u, m, "show_events")
    /\ LET rows == Database_get_events(events)
           t == NewTask(u, m, "show_events")
       IN IF rows = <<>>
          THEN FinalReply(NoTask, t, "answer", "no_events", 0, 0)
          ELSE \E oks \in [1..Len(rows) -> BOOLEAN] :
                 LET r == EventReplies(t, rows, oks, 1) IN Finish(NoTask, r.task, r.outcome)
    /\ UNCHANGED <<fsm_state, fsm_data, users, visits, events, admins>>

admin_panel(u, m) ==
    /\ Starts(u, m, "admin_panel")
    /\ AdminPanel(NoTask, NewTask(u, m, "admin_panel"))
    /\ UNCHANGED <<fsm_state, fsm_data, users, visits, events, admins>>

show_stats(u, m) ==
    /\ Starts(u, m, "show_stats")
    /\ LET t == NewTask(u, m, "show_stats")
           st == Database_get_stats(users, visits)
       IN IF ~Database_is_admin(admins, u)
          THEN Finish(NoTask, t, "returned")
          ELSE FinalReply(NoTask, Did(t, "db", "get_stats", 0, 0, TRUE), "answer", "stats",
                          st.total_visits, st.total_users)
    /\ UNCHANGED <<fsm_state, fsm_data, users, visits, events, admins>>

\* an update no registered handler accepts
unhandled(u, m) ==
    /\ polled + Cost(u, m) <= MaxUpdates
    /\ Route(fsm_state[u], m) = "unhandled"
    /\ polled' = polled + Cost(u, m)
    /\ last' = [user |-> u, msg |-> m, raw_state |-> fsm_state[u], handler |-> "unhandled",
                trace |-> <<>>, outcome |-> "unhandled"]
    /\ UNCHANGED <<fsm_state, fsm_data, users, visits, events, admins, tasks>>

(* --------------------------- broadcast flow ---------------------------- *)
\* the prompt of a flow came back: set_state(s), or the failed call ends the handler
SetStateAfterReply(p, s) ==
    \E ok \in BOOLEAN :
      LET t == AfterReply(p, ok) IN
      IF ok
      THEN /\ fsm_state' = FSM_set_state(fsm_state, t.user, s)
           /\ Finish(p, t, "returned")
      ELSE /\ Finish(p, t, "TelegramAPIError")
           /\ UNCHANGED fsm_state

\* fault: a clear that resets the state and keeps the data
ClearAfterReply_keep(p, ok) ==
    IF ok
    THEN /\ fsm_state' = [fsm_state EXCEPT ![p.user] = None]
         /\ UNCHANGED fsm_data
    ELSE /\ Finish(p, AfterReply(p, ok), "TelegramAPIError")
         /\ UNCHANGED <<fsm_state, fsm_data>>

\* state.clear() and the handler's last call came back, or the failed reply
\* ends the handler before it
ClearAfterReply(p, ok) ==
    IF ok
    THEN /\ fsm_state' = FSM_set_state(fsm_state, p.user, None)
         /\ fsm_data' = [fsm_data EXCEPT ![p.user] = NoData]
    ELSE /\ Finish(p, AfterReply(p, ok), "TelegramAPIError")
         /\ UNCHANGED <<fsm_state, fsm_data>>

start_mailing(u, m) ==
    /\ Starts(u, m, "start_mailing")
    /\ LET t == NewTask(u, m, "start_mailing") IN
       IF ~Database_is_admin(admins, u)
       THEN Finish(NoTask, t, "returned")
       ELSE Suspend( Did(t, "answer", "ask_mailing_text", 0, 0, TRUE))
    /\ UNCHANGED <<fsm_state, fsm_data, users, visits, events, admins>>

start_mailing_resume(p) ==
    /\ Resumes(p, "start_mailing")
    /\ SetStateAfterReply(p, Form_mailing_message)
    /\ UNCHANGED <<fsm_data, users, visits, events, admins>>

\* fault: the loop without its try/except, the first failed send ends it
RECURSIVE MailingLoop_abort(_, _, _, _, _)
MailingLoop_abort(t, l_users, oks, k, success) ==
    IF k > Len(l_users) THEN [task |-> t, success |-> success]
    ELSE LET sent == Did(t, "send_message", "mailing", l_users[k], 0, oks[k]) IN
         IF oks[k] THEN MailingLoop_abort(sent, l_users, oks, k + 1, success + 1)
         ELSE [task |-> sent, success |-> success]

\* the for loop of process_mailing from recipient k on: try send_message,
\* success += 1, except Exception: log; oks[k] is the result of send k
RECURSIVE MailingLoop(_, _, _, _, _)
MailingLoop(t, l_users, oks, k, success) ==
    IF k > Len(l_users) THEN [task |-> t, success |-> success]
    ELSE MailingLoop(Did(t, "send_message", "mailing", l_users[k], 0, oks[k]),
                     l_users, oks, k + 1, IF oks[k] THEN success + 1 ELSE success)

\* a send without text is refused before it is sent (message.text is None)
process_mailing(u, m) ==
    /\ Starts(u, m, "process_mailing")
    /\ LET l_users == Database_get_all_users(users)
           t == Did(NewTask(u, m, "process_mailing"), "db", "get_all_users", 0, 0, TRUE)
       IN \E oks \in [1..Len(l_users) -> BOOLEAN] :
            /\ m.text = None => \A k \in 1..Len(l_users) : ~oks[k]
            /\ LET r == MailingLoop(t, l_users, oks, 1, 0) IN
               Suspend( Did(r.task, "answer", "tally", r.success, Len(l_users), TRUE))
    /\ UNCHANGED <<fsm_state, fsm_data, users, visits, events, admins>>

process_mailing_resume(p) ==
    /\ Resumes(p, "process_mailing")
    /\ \E ok \in BOOLEAN :
         /\ ClearAfterReply(p, ok)
         /\ ok => AdminPanel(p, AfterReply(p, ok))
    /\ UNCHANGED <<users, visits, events, admins>>

(* ------------------------- event authoring flow ------------------------ *)
start_adding_event(u, m) ==
    /\ Starts(u, m, "start_adding_event")
    /\ LET t == NewTask(u, m, "start_adding_event") IN
       IF ~Database_is_admin(admins, u)
       THEN Finish(NoTask, t, "returned")
       ELSE Suspend( Did(t, "answer", "ask_title", 0, 0, TRUE))
    /\ UNCHANGED <<fsm_state, fsm_data, users, visits, events, admins>>

start_adding_event_resume(p) ==
    /\ Resumes(p, "start_adding_event")
    /\ SetStateAfterReply(p, Form_event_title)
    /\ UNCHANGED <<fsm_data, users, visits, events, admins>>

process_event_title(u, m) ==
    /\ Starts(u, m, "process_event_title")
    /\ fsm_data' = FSM_update_data(fsm_data, u, "title", m.text)
    /\ Suspend( Did(NewTask(u, m, "process_event_title"), "answer", "ask_description", 0, 0, TRUE))
    /\ UNCHANGED <<fsm_state, users, visits, events, admins>>

process_event_title_resume(p) ==
    /\ Resumes(p, "process_event_title")
    /\ SetStateAfterReply(p, Form_event_description)
    /\ UNCHANGED <<fsm_data, users, visits, events, admins>>

process_event_description(u, m) ==
    /\ Starts(u, m, "process_event_description")
    /\ fsm_data' = FSM_update_data(fsm_data, u, "description", m.text)
    /\ Suspend( Did(NewTask(u, m, "process_event_description"), "answer", "ask_date", 0, 0, TRUE))
    /\ UNCHANGED <<fsm_state, users, visits, events, admins>>

process_event_description_resume(p) ==
    /\ Resumes(p, "process_event_description")
    /\ SetStateAfterReply(p, Form_event_date)
    /\ UNCHANGED <<fsm_data, users, visits, events, admins>>

process_event_date(u, m) ==
    /\ Starts(u, m, "process_event_date")
    /\ LET t == NewTask(u, m, "process_event_date")
           err == strptime_error(m.text)
       IN IF err = "ok"
          THEN /\ fsm_data' = FSM_update_data(fsm_data, u, "event_date", strftime_storage(m.text))
               /\ Suspend( Did(t, "answer", "ask_photo", 0, 0, TRUE))
          ELSE IF err = "ValueError"
          THEN /\ FinalReply(NoTask, t, "answer", "date_format", 0, 0)
               /\ UNCHANGED fsm_data
          ELSE /\ Finish(NoTask, t, err)
               /\ UNCHANGED fsm_data
    /\ UNCHANGED <<fsm_state, users, visits, events, admins>>

process_event_date_resume(p) ==
    /\ Resumes(p, "process_event_date")
    /\ SetStateAfterReply(p, Form_event_photo)
    /\ UNCHANGED <<fsm_data, users, visits, events, admins>>

\* the branch of process_event_photo the message takes
PhotoChoice(m) ==
    IF m.text # None /\ Lower(m.text) = TXT_SKIP THEN "skip"
    ELSE IF m.photo # None THEN "photo"
    ELSE "other"

process_event_photo(u, m) ==
    /\ Starts(u, m, "process_event_photo")
    /\ LET t == NewTask(u, m, "process_event_photo")
           data == fsm_data[u]
           photo_id == IF PhotoChoice(m) = "skip" THEN None ELSE m.photo
       IN IF PhotoChoice(m) = "other"
          THEN /\ FinalReply(NoTask, t, "answer", "photo_or_skip", 0, 0)
               /\ UNCHANGED events
          ELSE IF {"title", "description", "event_date"} \subseteq DOMAIN data
          THEN \E dbok \in BOOLEAN :
                 IF dbok
                 THEN /\ Len(events) < MaxEvents
                      /\ events' = Database_add_event(events, data["title"], data["description"],
                                                      data["event_date"], photo_id)
                      /\ Suspend( Did(Did(t, "db", "add_event", 0, 0, TRUE),
                                         "answer", "event_added", 0, 0, TRUE))
                 ELSE /\ Finish(NoTask, Did(t, "db", "add_event", 0, 0, FALSE), "sqlite3.Error")
                      /\ UNCHANGED events
          ELSE /\ Finish(NoTask, t, "KeyError")
               /\ UNCHANGED events
    /\ UNCHANGED <<fsm_state, fsm_data, users, visits, admins>>

process_event_photo_resume(p) ==
    /\ Resumes(p, "process_event_photo")
    /\ \E ok \in BOOLEAN :
         /\ ClearAfterReply(p, ok)
         /\ ok => AdminPanel(p, AfterReply(p, ok))
    /\ UNCHANGED <<users, visits, events, admins>>

(* ------------------------------- the rest ------------------------------ *)
back_to_main_menu(u, m) ==
    /\ Starts(u, m, "back_to_main_menu")
    /\ MainMenu(NoTask, NewTask(u, m, "back_to_main_menu"))
    /\ UNCHANGED <<fsm_state, fsm_data, users, visits, events, admins>>

show_contacts(u, m) ==
    /\ Starts(u, m, "show_contacts")
    /\ FinalReply(NoTask, NewTask(u, m, "show_contacts"), "answer", "contacts", 0, 0)
    /\ UNCHANGED <<fsm_state, fsm_data, users, visits, events, admins>>

start_feedback(u, m) ==
    /\ Starts(u, m, "start_feedback")
    /\ Suspend( Did(NewTask(u, m, "start_feedback"), "answer", "ask_feedback", 0, 0, TRUE))
    /\ UNCHANGED <<fsm_state, fsm_data, users, visits, events, admins>>

start_feedback_resume(p) ==
    /\ Resumes(p, "start_feedback")
    /\ SetStateAfterReply(p, Form_feedback)
    /\ UNCHANGED <<fsm_data, users, visits, events, admins>>

process_feedback(u, m) ==
    /\ Starts(u, m, "process_feedback")
    /\ Suspend( Did(NewTask(u, m, "process_feedback"), "answer", "thanks", 0, 0, TRUE))
    /\ UNCHANGED <<fsm_state, fsm_data, users, visits, events, admins>>

process_feedback_resume(p) ==
    /\ Resumes(p, "process_feedback")
    /\ \E ok \in BOOLEAN :
         /\ ClearAfterReply(p, ok)
         /\ ok => MainMenu(p, AfterReply(p, ok))
    /\ UNCHANGED <<users, visits, events, admins>>

(* ----------------------------- specification --------------------------- *)
Next ==
    \/ \E u \in UserIds, m \in Messages : cmd_start(u, m)
    \/ \E u \in UserIds, m \in Messages : process_phone(u, m)
    \/ \E u \in UserIds, m \in Messages : mark_visit(u, m)
    \/ \E u \in UserIds, m \in Messages : show_bonuses(u, m)
    \/ \E u \in UserIds, m \in Messages : show_events(u, m)
    \/ \E u \in UserIds, m \in Messages : admin_panel(u, m)
    \/ \E u \in UserIds, m \in Messages : show_stats(u, m)
    \/ \E u \in UserIds, m \in Messages : start_mailing(u, m)
    \/ \E u \in UserIds, m \in Messages : process_mailing(u, m)
    \/ \E u \in UserIds, m \in Messages : start_adding_event(u, m)
    \/ \E u \in UserIds, m \in Messages : process_event_title(u, m)
    \/ \E u \in UserIds, m \in Messages : process_event_description(u, m)
    \/ \E u \in UserIds, m \in Messages : process_event_date(u, m)
    \/ \E u \in UserIds, m \in Messages : process_event_photo(u, m)
    \/ \E u \in UserIds, m \in Messages : back_to_main_menu(u, m)
    \/ \E u \in UserIds, m \in Messages : show_contacts(u, m)
    \/ \E u \in UserIds, m \in Messages : start_feedback(u, m)
    \/ \E u \in UserIds, m \in Messages : process_feedback(u, m)
    \/ \E u \in UserIds, m \in Messages : unhandled(u, m)
    \/ \E p \in BagToSet(tasks) : process_phone_resume(p)
    \/ \E p \in BagToSet(tasks) : mark_visit_resume(p)
    \/ \E p \in BagToSet(tasks) : start_mailing_resume(p)
    \/ \E p \in BagToSet(tasks) : process_mailing_resume(p)
    \/ \E p \in BagToSet(tasks) : start_adding_event_resume(p)
    \/ \E p \in BagToSet(tasks) : process_event_title_resume(p)
    \/ \E p \in BagToSet(tasks) : process_event_description_resume(p)
    \/ \E p \in BagToSet(tasks) : process_event_date_resume(p)
    \/ \E p \in BagToSet(tasks) : process_event_photo_resume(p)
    \/ \E p \in BagToSet(tasks) : start_feedback_resume(p)
    \/ \E p \in BagToSet(tasks) : process_feedback_resume(p)

Spec == Init /\ [][Next]_vars

(* ------------------------- properties: access -------------------------- *)
\* the Dispatcher handles update m of user u in this step, whichever
\* handler the router picks
Handled(u, m) ==
    \/ cmd_start(u, m) \/ process_phone(u, m) \/ mark_visit(u, m) \/ show_bonuses(u, m)
    \/ show_events(u, m) \/ admin_panel(u, m) \/ show_stats(u, m) \/ start_mailing(u, m)
    \/ process_mailing(u, m) \/ start_adding_event(u, m) \/ process_event_title(u, m)
    \/ process_event_description(u, m) \/ process_event_date(u, m)
    \/ process_event_photo(u, m) \/ back_to_main_menu(u, m) \/ show_contacts(u, m)
    \/ start_feedback(u, m) \/ process_feedback(u, m) \/ unhandled(u, m)

PrivilegedTexts == {TXT_STATS, TXT_MAILING, TXT_ADD_EVENT}

PrivilegedHandlers == {"show_stats", "start_mailing", "start_adding_event"}

\* C1: a privileged command (statistics, start broadcast, start event
\* authoring) of a user who is not an operator, in whatever conversation
\* state, changes neither the user's state nor the accumulator nor the
\* ledger, and its handler ends at once without any call: nothing is sent,
\* no Event is persisted and the statistics are not read.
C1_PrivilegedCommandOfNonOperatorHasNoEffect ==
    [][\A u \in UserIds, m \in Messages :
         (u \notin admins /\ m.text \in PrivilegedTexts /\ Handled(u, m))
           => /\ fsm_state' = fsm_state
              /\ fsm_data' = fsm_data
              /\ <<users', visits', events', admins'>> = <<users, visits, events, admins>>
              /\ tasks' = tasks
              /\ last'.user = u /\ last'.msg = m /\ last'.handler \in PrivilegedHandlers
              /\ last'.trace = <<>>
              /\ last'.outcome = "returned"]_vars

\* C1's case: a guest who is writing a feedback sent a privileged command
\* and its handler returned without a call
C1_Witness ==
    /\ last.user \notin admins
    /\ last.user \in UserIds
    /\ last.msg.text \in PrivilegedTexts
    /\ last.raw_state = Form_feedback
    /\ last.handler \in PrivilegedHandlers
    /\ last.trace = <<>>
    /\ fsm_state[last.user] = Form_feedback

(* ------------------------ properties: broadcast ------------------------ *)
IsSend(e) == e.op = "send_message"

\* C2: one run of process_mailing attempts every recipient of the list it
\* read exactly once and in order, whichever of the sends fail; no failed
\* send ends the handler, which goes on to report the tally: the number of
\* sends that succeeded out of the number of recipients.
C2_BroadcastAttemptsEveryRecipientOnce ==
    [][\A u \in UserIds, m \in Messages :
         process_mailing(u, m)
           => \E t \in BagToSet(tasks') :
                LET l_users == Database_get_all_users(users)
                    sends == SelectSeq(t.trace, IsSend)
                    tally == t.trace[Len(t.trace)]
                IN /\ tasks' = tasks (+) SetToBag({t})
                   /\ t.user = u /\ t.msg = m /\ t.handler = "process_mailing"
                   /\ Len(sends) = Len(l_users)
                   /\ \A k \in 1..Len(l_users) : sends[k].n = l_users[k]
                   /\ \A j, k \in 1..Len(sends) : sends[j].n = sends[k].n => j = k
                   /\ tally.op = "answer" /\ tally.kind = "tally"
                   /\ tally.n = Cardinality({k \in 1..Len(sends) : sends[k].ok})
                   /\ tally.total = Len(l_users)
                   /\ last' = NoLast]_vars

\* C2's case: a broadcast to two recipients whose first send failed and
\* whose second send succeeded reports 1 of 2
C2_Witness ==
    \E t \in BagToSet(tasks) :
      /\ t.handler = "process_mailing"
      /\ Len(SelectSeq(t.trace, IsSend)) = 2
      /\ ~SelectSeq(t.trace, IsSend)[1].ok
      /\ SelectSeq(t.trace, IsSend)[2].ok
      /\ t.trace[Len(t.trace)].kind = "tally"
      /\ t.trace[Len(t.trace)].n = 1
      /\ t.trace[Len(t.trace)].total = 2

(* --------------------------- properties: flows ------------------------- *)
TopLevelCommands == {TXT_START, TXT_VISIT, TXT_BONUSES, TXT_EVENTS, TXT_CONTACTS, TXT_BACK,
                     TXT_FEEDBACK, TXT_MAILING, TXT_ADD_EVENT}

EventFields == {"title", "description", "event_date"}

\* C3: once the update of a top-level command sent in AwaitingEventDescription
\* has been handled, the authoring flow is abandoned: the command was not
\* taken as the description, the user's state is no longer
\* AwaitingEventDescription and the accumulator holds no field of the
\* abandoned flow.
C3_CommandAbandonsEventDescription ==
    (/\ last.raw_state = Form_event_description
     /\ last.msg.text \in TopLevelCommands
     /\ last.outcome = "returned")
      => /\ last.handler # "process_event_description"
         /\ fsm_state[last.user] # Form_event_description
         /\ DOMAIN fsm_data[last.user] \cap EventFields = {}

\* the step handler registered for each state of a flow
StepHandler ==
    (Form_event_title :> "process_event_title") @@
    (Form_event_description :> "process_event_description") @@
    (Form_event_date :> "process_event_date") @@
    (Form_event_photo :> "process_event_photo") @@
    (Form_mailing_message :> "process_mailing") @@
    (Form_feedback :> "process_feedback")

StatelessHandlers == {"cmd_start", "process_phone", "mark_visit", "show_bonuses", "show_events",
                      "admin_panel", "show_stats", "back_to_main_menu", "show_contacts"}

\* C4: an update that arrived while the user's state was an Awaiting* state
\* was handled by the step handler of that state, and a stateless command
\* handler only handled updates that arrived in Idle.
C4_ActiveFlowTakesEveryMessage ==
    /\ last.raw_state \in DOMAIN StepHandler => last.handler = StepHandler[last.raw_state]
    /\ last.handler \in StatelessHandlers => last.raw_state = None

\* the handlers that take the FSMContext: they read or write the user's
\* ConversationState
StateHandlers == {"start_mailing", "process_mailing", "start_adding_event",
                  "process_event_title", "process_event_description", "process_event_date",
                  "process_event_photo", "start_feedback", "process_feedback"}

\* C5: no two handlers working on the ConversationState of one user are in
\* progress at the same time.
C5_OneTransitionPerUserAtATime ==
    \A t1, t2 \in BagToSet(tasks) :
      (t1.user = t2.user /\ t1.handler \in StateHandlers /\ t2.handler \in StateHandlers)
        => t1 = t2 /\ CopiesIn(t1, tasks) = 1

(* -------------------------- properties: visits ------------------------- *)
\* C6: the visit counter of a user moves only by mark_visit and by exactly
\* one per recorded visit, however many mark_visit handlers of that user and
\* whatever handlers of others are in progress; the count add_visit returns
\* is the new count, so concurrent visits get distinct consecutive counts
\* and none is lost.
C6_VisitsAreLinearized ==
    [][\A u \in UserIds :
         LET before == CopiesIn(u, visits)
             after == CopiesIn(u, visits')
         IN /\ after \in {before, before + 1}
            /\ after # before => \E m \in Messages : mark_visit(u, m)
            /\ \A m \in Messages :
                 (mark_visit(u, m) /\ tasks' # tasks)
                   => /\ after = before + 1
                      /\ \E t \in BagToSet(tasks') :
                           /\ tasks' = tasks (+) SetToBag({t})
                           /\ t.trace[1].kind = "add_visit"
                           /\ t.trace[1].n = after]_vars

\* C6's case: two mark_visit handlers of one user are in progress at the
\* same time, they got the counts 1 and 2 and the ledger holds 2 visits
C6_Witness ==
    \E t1, t2 \in BagToSet(tasks) :
      /\ t1.handler = "mark_visit" /\ t2.handler = "mark_visit"
      /\ t1.user = t2.user
      /\ t1.trace[1].n = 1 /\ t2.trace[1].n = 2
      /\ CopiesIn(t1.user, visits) = 2

(* ----------------------- properties: event authoring ------------------- *)
Persisted(trace) == \E k \in 1..Len(trace) : trace[k].kind = "add_event" /\ trace[k].ok

\* C7: when process_event_photo is over, however it ended, the Event is
\* persisted exactly if the flow is over: it never leaves the operator in
\* AwaitingEventPhoto with the accumulator of an Event it has persisted, and
\* never leaves the state Idle without having persisted the Event.
C7_PersistAndTransitionAreAtomic ==
    last.handler = "process_event_photo"
      => /\ Persisted(last.trace)
              => ~(/\ fsm_state[last.user] = Form_event_photo
                   /\ EventFields \subseteq DOMAIN fsm_data[last.user])
         /\ (last.outcome = "returned" /\ fsm_state[last.user] = None)
              => Persisted(last.trace)

\* C9: an update handled by the date step whose payload is no text that
\* reads as a date-time leaves the state at AwaitingEventDate, keeps the
\* accumulator without a date, and is answered with the re-prompt that
\* names the format.
C9_UnparseableDateIsReprompted ==
    (/\ last.handler = "process_event_date"
     /\ strptime_error(last.msg.text) # "ok")
      => /\ \E k \in 1..Len(last.trace) : last.trace[k].kind = "date_format"
         /\ "event_date" \notin DOMAIN fsm_data[last.user]

(* -------------------------- properties: failures ----------------------- *)
\* C8: the update of a privileged command sent by a user who is not an
\* operator is answered with a denial.
C8_NonOperatorGetsDenial ==
    (/\ last.user \in UserIds
     /\ last.user \notin admins
     /\ last.msg.text \in PrivilegedTexts)
      => \E k \in 1..Len(last.trace) : last.trace[k].kind = "denial"

\* C10: a handler a ledger write failed in has answered the user with a
\* reply (the failure notice) before it ended.
C10_StorageFailureIsReported ==
    last.outcome = "sqlite3.Error"
      => \E k \in 1..Len(last.trace) : last.trace[k].op \in {"answer", "answer_photo"}

(* ------------------------ properties: broadcast end -------------------- *)
\* C11: once the broadcast handler is over, whichever sends and replies
\* failed, the operator's state is Idle and the accumulator is empty.
C11_BroadcastEndsIdle ==
    (last.handler = "process_mailing" /\ last.msg.text \in FreeTexts)
      => /\ fsm_state[last.user] = None
         /\ fsm_data[last.user] = NoData

(* ----------------------- the loyalty views alone ----------------------- *)
\* the visits table with v rows of user u
VisitsOf(u, v) == IF v = 0 THEN EmptyBag ELSE (u :> v)

\* The process starts on a ledger of earlier runs: some user has
\* 0..MaxCount visits.
InitLoyalty ==
    /\ fsm_state = [u \in UserIds |-> None]
    /\ fsm_data  = [u \in UserIds |-> NoData]
    /\ users = [u \in UserIds |-> None]
    /\ visits \in {VisitsOf(u, v) : u \in UserIds, v \in 0..MaxCount}
    /\ events = <<>>
    /\ admins = {BootstrapAdmin}
    /\ tasks  = EmptyBag
    /\ last   = NoLast
    /\ polled = 0

\* the handlers that show the visit count and the visits left to the free coffee
NextLoyalty ==
    \/ \E u \in UserIds, m \in Messages : mark_visit(u, m)
    \/ \E u \in UserIds, m \in Messages : show_bonuses(u, m)
    \/ \E u \in UserIds, m \in Messages : back_to_main_menu(u, m)
    \/ \E p \in BagToSet(tasks) : mark_visit_resume(p)

SpecLoyalty == InitLoyalty /\ [][NextLoyalty]_vars

\* the replies that report the visits left to the free coffee
RemainingViews == {"main_menu", "main_menu_free_coffee", "visit_counted", "bonuses"}

MainMenuViews == {"main_menu", "main_menu_free_coffee"}

\* the replies of the handlers in progress and of the one that ended last
Replies ==
    UNION {{tr[k] : k \in 1..Len(tr)} : tr \in {t.trace : t \in BagToSet(tasks)} \cup {last.trace}}

\* C12: every reply that reports the visits left to the free coffee (main
\* menu, mark-visit reply, bonuses card) reports a value in 0..N-1.
C12_RemainingShownIsBelowN ==
    \A e \in Replies : (e.kind \in RemainingViews /\ e.ok) => e.n \in 0..(N - 1)

\* C13: the main menu's remaining is 0 exactly for a positive visit count
\* that is a multiple of N.
C13_RemainingIsZeroOnlyAtCompletedCycle ==
    \A e \in Replies :
      (e.kind \in MainMenuViews /\ e.ok) => (e.n = 0 <=> (e.total > 0 /\ e.total % N = 0))


(* --------------------------- properties: users ------------------------- *)
\* C14: a user whose update has been handled, whatever its kind, has a
\* record in the users table, and so has every user with a visit; they are
\* among the recipients of a broadcast and counted by the statistics.
C14_EveryoneSeenHasUserRecord ==
    /\ (last.user \in UserIds /\ last.outcome = "returned") => last.user \in DOMAIN users
    /\ \A u \in UserIds :
         Database_get_visits_count(visits, u) > 0
           => \E k \in 1..Len(Database_get_all_users(users)) :
                Database_get_all_users(users)[k] = u

\* C15: once the update of a contact payload has been handled, the users
\* table holds the payload's phone number for the sender, the sender's
\* state is Idle and the main menu was sent.
C15_ContactStoresPhoneAndShowsMenu ==
    (last.msg.contact # None /\ last.outcome = "returned")
      => /\ last.user \in DOMAIN users
         /\ users[last.user] = last.msg.contact
         /\ fsm_state[last.user] = None
         /\ \E k \in 1..Len(last.trace) : last.trace[k].kind \in MainMenuViews

(* ------------------------ properties: visit ledger --------------------- *)
\* C16: no step lowers a user's visit count; the visits table changes only
\* in a mark_visit step, which adds exactly one visit of its sender and
\* leaves the count of every other user as it was.
C16_VisitCountsNeverDecrease ==
    [][/\ \A u \in UserIds : CopiesIn(u, visits') >= CopiesIn(u, visits)
       /\ visits' # visits
            => \E a \in UserIds :
                 /\ \E m \in Messages : mark_visit(a, m)
                 /\ CopiesIn(a, visits') = CopiesIn(a, visits) + 1
                 /\ \A b \in UserIds \ {a} : CopiesIn(b, visits') = CopiesIn(b, visits)]_vars

\* C16's case: the guest and the operator have both marked a visit and each
\* has the one visit of their own
C16_Witness ==
    /\ \A u \in UserIds : CopiesIn(u, visits) = 1
    /\ BagCardinality(visits) = Cardinality(UserIds)

(* ------------------------ properties: flows' data ---------------------- *)
\* C17: a user in AwaitingEventPhoto has title, description and date in
\* the accumulator, whatever flows were started or switched before.
C17_PhotoStepHasAllFields ==
    \A u \in UserIds : fsm_state[u] = Form_event_photo => EventFields \subseteq DOMAIN fsm_data[u]

OperatorStates == {Form_mailing_message, Form_event_title, Form_event_description,
                   Form_event_date, Form_event_photo}

OperatorSteps == {StepHandler[st] : st \in OperatorStates}

\* C18: a user whose state is AwaitingBroadcastMessage or an AwaitingEvent*
\* state is an operator, and so is every user a step handler of these
\* states runs or has run for.
C18_OperatorFlowsOnlyForOperators ==
    /\ \A u \in UserIds : fsm_state[u] \in OperatorStates => u \in admins
    /\ \A t \in BagToSet(tasks) : t.handler \in OperatorSteps => t.user \in admins
    /\ last.handler \in OperatorSteps => last.user \in admins

\* C18's case: a guest sent the broadcast command, which returned, while
\* the operator is in AwaitingBroadcastMessage
C18_Witness ==
    /\ last.user \in UserIds \ admins
    /\ last.handler = "start_mailing"
    /\ fsm_state[last.user] = None
    /\ \E u \in admins : fsm_state[u] = Form_mailing_message

\* C19: a user whose state is Idle has an empty accumulator.
C19_IdleHasEmptyAccumulator ==
    \A u \in UserIds : fsm_state[u] = None => fsm_data[u] = NoData

\* C19's case: the authoring flow went through all its steps, persisted
\* the Event and is back in Idle
C19_Witness ==
    /\ last.handler = "process_event_photo"
    /\ last.outcome = "returned"
    /\ Persisted(last.trace)
    /\ fsm_state[last.user] = None
    /\ fsm_data[last.user] = NoData

(* ------------------------ properties: independence --------------------- *)
\* a step of a handler of user a: it takes an update of a, or it goes on
\* with a suspended handler of a
Acting(a) ==
    \/ \E m \in Messages : Handled(a, m)
    \/ \E p \in BagToSet(tasks) : p.user = a /\ tasks' = tasks (-) SetToBag({p})

\* C20: a step of a handler of user A, a broadcast that sends to B
\* included, leaves the state and the accumulator of every other user B
\* as they were: a step that changes B's state or accumulator is no step
\* of a handler of another user.
C20_OtherUsersAreUntouched ==
    [][\A b \in UserIds :
         (fsm_state'[b] # fsm_state[b] \/ fsm_data'[b] # fsm_data[b])
           => \A a \in UserIds \ {b} : ~Acting(a)]_vars

\* C20's case: the operator's broadcast has sent to the guest while the
\* guest is writing a feedback
C20_Witness ==
    \E t \in BagToSet(tasks) :
      /\ t.handler = "process_mailing"
      /\ \E k \in 1..Len(t.trace) :
           /\ t.trace[k].op = "send_message" /\ t.trace[k].ok
           /\ t.trace[k].n # t.user
           /\ fsm_state[t.trace[k].n] = Form_feedback

====
